---- MODULE Spec2Model ----
(***************************************************************************)
(* FRANZ executor and capture pipeline (src/execute.py, src/capture.py).   *)
(*                                                                         *)
(* Action lines are modelled as the strings the programs read; the text    *)
(* operations the code applies to them (str.find, str.rfind, slicing,      *)
(* str.strip, eval of a literal list, int()) are operators computed on     *)
(* those strings.  The annotated frame is the captured frame together with *)
(* the ordered list of drawing calls the annotators issue on it; the pixel *)
(* primitives themselves are modelled byte for byte on a small buffer.     *)
(***************************************************************************)
EXTENDS Integers, Sequences, FiniteSets, TLC

(***************************************************************************)
(* Python text operations                                                  *)
(***************************************************************************)

\* s[i] for a 0-based index i inside the string
CharAt(s, i) == SubSeq(s, i + 1, i + 1)

\* str.find(c): 0-based index of the first occurrence of character c, or -1
RECURSIVE FindFrom(_, _, _)
FindFrom(s, c, i) ==
    IF i >= Len(s) THEN -1
    ELSE IF CharAt(s, i) = c THEN i
    ELSE FindFrom(s, c, i + 1)

Find(s, c) == FindFrom(s, c, 0)

\* str.rfind(c): 0-based index of the last occurrence of character c, or -1
RECURSIVE RFindFrom(_, _, _)
RFindFrom(s, c, i) ==
    IF i < 0 THEN -1
    ELSE IF CharAt(s, i) = c THEN i
    ELSE RFindFrom(s, c, i - 1)

RFind(s, c) == RFindFrom(s, c, Len(s) - 1)

\* one slice bound as Python clamps it: a negative bound counts from the end
SliceBound(n, b) ==
    IF b < 0 THEN (IF n + b < 0 THEN 0 ELSE n + b)
    ELSE IF b > n THEN n ELSE b

\* s[a:b]
Slice(s, a, b) == SubSeq(s, SliceBound(Len(s), a) + 1, SliceBound(Len(s), b))

\* the whitespace of the modelled texts inside a line: blank and tab
Whitespace == {" ", "\t"}

\* str.strip()
RECURSIVE LStrip(_)
LStrip(s) ==
    IF Len(s) > 0 /\ CharAt(s, 0) \in Whitespace THEN LStrip(Slice(s, 1, Len(s))) ELSE s

RECURSIVE RStrip(_)
RStrip(s) ==
    IF Len(s) > 0 /\ CharAt(s, Len(s) - 1) \in Whitespace
    THEN RStrip(Slice(s, 0, Len(s) - 1))
    ELSE s

Strip(s) == RStrip(LStrip(s))

\* str.rstrip(c) for one character c
RECURSIVE RStripChar(_, _)
RStripChar(s, c) ==
    IF Len(s) > 0 /\ CharAt(s, Len(s) - 1) = c THEN RStripChar(Slice(s, 0, Len(s) - 1), c)
    ELSE s

LOWERCASE == "abcdefghijklmnopqrstuvwxyz"
UPPERCASE == "ABCDEFGHIJKLMNOPQRSTUVWXYZ"

\* str.upper() (on ASCII text)
RECURSIVE Upper(_)
Upper(s) ==
    IF Len(s) = 0 THEN ""
    ELSE LET j == Find(LOWERCASE, CharAt(s, 0))
         IN  (IF j >= 0 THEN CharAt(UPPERCASE, j) ELSE CharAt(s, 0))
             \o Upper(Slice(s, 1, Len(s)))

\* str.splitlines() from offset i, the line being read starting at offset
\* start: a line ends at "\n", "\r" or "\r\n", and a text that ends in a line
\* end has no empty last line
RECURSIVE SplitFrom(_, _, _)
SplitFrom(s, i, start) ==
    IF i >= Len(s) THEN (IF start < Len(s) THEN << Slice(s, start, Len(s)) >> ELSE << >>)
    ELSE IF CharAt(s, i) = "\n"
         THEN << Slice(s, start, i) >> \o SplitFrom(s, i + 1, i + 1)
    ELSE IF CharAt(s, i) = "\r"
         THEN LET nxt == IF i + 1 < Len(s) /\ CharAt(s, i + 1) = "\n" THEN i + 2 ELSE i + 1
              IN  << Slice(s, start, i) >> \o SplitFrom(s, nxt, nxt)
    ELSE SplitFrom(s, i + 1, start)

SplitLines(s) == SplitFrom(s, 0, 0)

Digits == {"0", "1", "2", "3", "4", "5", "6", "7", "8", "9"}

DigitVal(ch) ==
    CASE ch = "0" -> 0 [] ch = "1" -> 1 [] ch = "2" -> 2 [] ch = "3" -> 3
      [] ch = "4" -> 4 [] ch = "5" -> 5 [] ch = "6" -> 6 [] ch = "7" -> 7
      [] ch = "8" -> 8 [] ch = "9" -> 9

AllIn(s, set) == \A i \in 0 .. Len(s) - 1 : CharAt(s, i) \in set

\* the value of a non-empty string of decimal digits
RECURSIVE DigitsValue(_)
DigitsValue(s) ==
    IF Len(s) = 0 THEN 0
    ELSE DigitsValue(Slice(s, 0, Len(s) - 1)) * 10 + DigitVal(CharAt(s, Len(s) - 1))

\* a decimal integer literal of Python 3: digits, no leading zero unless the
\* value is zero
IsDecimal(s) ==
    /\ Len(s) > 0
    /\ AllIn(s, Digits)
    /\ (CharAt(s, 0) = "0" => AllIn(s, {"0"}))

(***************************************************************************)
(* Python values and eval of the argument text                             *)
(***************************************************************************)

IntValue(n) == [t |-> "int", v |-> n, s |-> ""]
StrValue(x) == [t |-> "str", v |-> 0, s |-> x]
NoValue == [t |-> "error", v |-> 0, s |-> ""]

\* the value of one comma-separated item of a list display or of a call's
\* arguments: an integer literal with an optional sign, a single-quoted
\* string without escapes, or an expression that raises (a bare identifier
\* is a NameError under empty builtins; text that is no expression is a
\* SyntaxError)
ItemValue(item) ==
    LET x == Strip(item) IN
    IF IsDecimal(x) THEN IntValue(DigitsValue(x))
    ELSE IF Len(x) >= 2 /\ CharAt(x, 0) = "-" /\ IsDecimal(Slice(x, 1, Len(x)))
        THEN IntValue(0 - DigitsValue(Slice(x, 1, Len(x))))
    ELSE IF /\ Len(x) >= 2
            /\ CharAt(x, 0) = "'"
            /\ CharAt(x, Len(x) - 1) = "'"
            /\ Find(Slice(x, 1, Len(x) - 1), "'") = -1
        THEN StrValue(Slice(x, 1, Len(x) - 1))
    ELSE NoValue

\* the items of an argument text, split at the commas outside quotes
RECURSIVE SplitItems(_, _, _, _)
SplitItems(s, i, start, quoted) ==
    IF i >= Len(s) THEN << Slice(s, start, Len(s)) >>
    ELSE IF CharAt(s, i) = "'" THEN SplitItems(s, i + 1, start, ~quoted)
    ELSE IF CharAt(s, i) = "," /\ ~quoted
        THEN << Slice(s, start, i) >> \o SplitItems(s, i + 1, i + 1, FALSE)
    ELSE SplitItems(s, i + 1, start, quoted)

\* eval("[" + body + "]") and the argument list of a call f(body): the list
\* of values, or an exception.  An empty body is the empty list, one
\* trailing comma after an item is allowed, any other empty item is a
\* SyntaxError.
EvalArgs(body) ==
    LET raw == SplitItems(body, 0, 0, FALSE)
        n == Len(raw)
        items == IF n >= 2 /\ Strip(raw[n]) = "" THEN SubSeq(raw, 1, n - 1) ELSE raw
        vals == [j \in 1 .. Len(items) |-> ItemValue(items[j])]
    IN  IF Strip(body) = "" THEN [ok |-> TRUE, args |-> << >>]
        ELSE IF \E j \in 1 .. Len(vals) : vals[j].t = "error"
            THEN [ok |-> FALSE, args |-> << >>]
        ELSE [ok |-> TRUE, args |-> vals]

\* int(x): whether it raises (ValueError for a string that is no integer)
IsIntText(x) ==
    \/ (Len(x) > 0 /\ AllIn(x, Digits))
    \/ (Len(x) > 1 /\ CharAt(x, 0) \in {"-", "+"} /\ AllIn(Slice(x, 1, Len(x)), Digits))

IntRaises(val) == val.t = "str" /\ ~IsIntText(Strip(val.s))

\* int(x) where it does not raise
IntOf(val) ==
    IF val.t = "int" THEN val.v
    ELSE LET x == Strip(val.s) IN
         IF CharAt(x, 0) = "-" THEN 0 - DigitsValue(Slice(x, 1, Len(x)))
         ELSE IF CharAt(x, 0) = "+" THEN DigitsValue(Slice(x, 1, Len(x)))
         ELSE DigitsValue(x)

(***************************************************************************)
(* Constants of the programs                                               *)
(***************************************************************************)

ACTION_PRIMARY == << 255, 50, 200, 255 >>
ACTION_SECONDARY == << 255, 180, 240, 255 >>
ACTION_OUTLINE == << 40, 0, 30, 200 >>

\* main.py: the target resolution the orchestrator asks for
WIDTH == 736
HEIGHT == 464

GLYPH_CURSOR ==
    << "#           ",
       "##          ",
       "#.#         ",
       "#..#        ",
       "#...#       ",
       "#....#      ",
       "#.....#     ",
       "#......#    ",
       "#.......#   ",
       "#........#  ",
       "#.....#####",
       "#..#..#     ",
       "#.# #..#    ",
       "##  #..#    ",
       "#    #..#   ",
       "     ###    " >>

GLYPH_CURSOR_RIGHT ==
    << "#           ",
       "##          ",
       "#.#         ",
       "#..#        ",
       "#...#       ",
       "#....#      ",
       "#.....#     ",
       "#......#    ",
       "#.......#   ",
       "#........#  ",
       "#.....#####",
       "#..#..# ##  ",
       "#.# #..##.# ",
       "##  #..### ",
       "#    #..#   ",
       "     ###    " >>

GLYPH_IBEAM ==
    << " ### ",
       "  #  ",
       "  #  ",
       "  #  ",
       "  #  ",
       "  #  ",
       "  #  ",
       "  #  ",
       "  #  ",
       "  #  ",
       "  #  ",
       "  #  ",
       "  #  ",
       " ### " >>

IBEAM_W == Len(GLYPH_IBEAM[1])
IBEAM_H == Len(GLYPH_IBEAM)

Glyph(name) ==
    CASE name = "GLYPH_CURSOR" -> GLYPH_CURSOR
      [] name = "GLYPH_CURSOR_RIGHT" -> GLYPH_CURSOR_RIGHT
      [] name = "GLYPH_IBEAM" -> GLYPH_IBEAM

KNOWN_FUNCTIONS ==
    {"left_click", "right_click", "double_left_click", "drag", "type", "screenshot"}

(***************************************************************************)
(* Coordinates                                                             *)
(***************************************************************************)

\* int(q) of the rational n/d, d > 0: truncation toward zero
Trunc(n, d) == IF n >= 0 THEN n \div d ELSE 0 - ((0 - n) \div d)

\* Python's floor division by a positive number
FloorDiv(n, d) == n \div d

(***************************************************************************)
(* Double arithmetic.  A positive double is kept as its 53-bit significand *)
(* lead * 2^52 + L[1] * 2^39 + L[2] * 2^26 + L[3] * 2^13 + L[4] and the    *)
(* shift sh: its value is the significand times 2^(-52 - sh).  Results are *)
(* rounded to nearest, ties to even, as IEEE 754 binary64 does.  Operands  *)
(* are integers below 2^18 (dividend) and 2^13 (factor) in magnitude.      *)
(***************************************************************************)

LIMB == 8192

RECURSIVE Pow2(_)
Pow2(k) == IF k <= 0 THEN 1 ELSE 2 * Pow2(k - 1)

\* the number of bits of v
RECURSIVE BitLen(_)
BitLen(v) == IF v <= 0 THEN 0 ELSE 1 + BitLen(v \div 2)

\* four limb values with the carries taken from low to high:
\* << the limbs, the carry out >>
Carry1(v1, l2, l3, l4) == << << v1 % LIMB, l2, l3, l4 >>, v1 \div LIMB >>
Carry2(a1, v2, l3, l4) == Carry1(a1 + v2 \div LIMB, v2 % LIMB, l3, l4)
Carry3(a1, a2, v3, l4) == Carry2(a1, a2 + v3 \div LIMB, v3 % LIMB, l4)
Carries(a1, a2, a3, v4) == Carry3(a1, a2, a3 + v4 \div LIMB, v4 % LIMB)

\* L + 1 on four limbs
LimbsUp(L) == Carries(L[1], L[2], L[3], L[4] + 1)

\* the next cnt limbs of the quotient r / d and the remainder after them
DivCons(digit, t) == << << digit >> \o t[1], t[2] >>

RECURSIVE DivLimbs(_, _, _)
DivLimbs(r, d, cnt) ==
    IF cnt = 0 THEN << << >>, r >>
    ELSE CHOOSE t \in { DivCons(x \div d, DivLimbs(x % d, d, cnt - 1)) : x \in {r * LIMB} } :
             TRUE

Rounded(inc, sh) == [lead |-> 1 + inc[2], L |-> inc[1], sh |-> sh]

\* the quotient of limbs t[1] and remainder t[2], rounded
DivRound(t, d, sh) ==
    IF 2 * t[2] > d \/ (2 * t[2] = d /\ t[1][4] % 2 = 1)
    THEN Rounded(LimbsUp(t[1]), sh)
    ELSE [lead |-> 1, L |-> t[1], sh |-> sh]

\* the j with 2^(-j) <= n / 1000 < 2^(1 - j) (n < 1000), or with
\* 2^j <= n / 1000 < 2^(j + 1) (n >= 1000)
DivShift(n) ==
    IF n < 1000
    THEN CHOOSE m \in 0 .. 10 : n * Pow2(m) >= 1000 /\ (m = 0 \/ n * Pow2(m - 1) < 1000)
    ELSE CHOOSE m \in 0 .. 18 : 1000 * Pow2(m) <= n /\ n < 1000 * Pow2(m + 1)

\* (a value that is used more than once is bound by a set of one element,
\* so that it is computed once)
DivWith(n, j, d) ==
    CHOOSE q \in { DivRound(t, d, IF n < 1000 THEN j ELSE 0 - j) :
                    t \in {DivLimbs(IF n < 1000 THEN n * Pow2(j) - 1000 ELSE n - d, d, 4)} } :
        TRUE

DivFrom(n, j) ==
    CHOOSE q \in { DivWith(n, j, d) : d \in {IF n < 1000 THEN 1000 ELSE 1000 * Pow2(j)} } :
        TRUE

\* the double n / 1000 (n / 1000.0) for an integer n > 0
float_div_1000(n) == CHOOSE q \in { DivFrom(n, j) : j \in {DivShift(n)} } : TRUE

\* the lowest k bits of the product are rounded off upwards: they are more
\* than half a unit of the bit above them, or half of it and that bit is set
RoundsUp(low, half, kept, k) == k > 0 /\ (low > half \/ (low = half /\ kept = 1))

\* every bit of the product between the rounded-off ones and the binary
\* point, which is 52 + sh bits up, is set
AllOnes(top, P, k, sh) ==
    /\ IF sh >= 0 THEN top % Pow2(sh) = Pow2(sh) - 1 /\ P[1] = LIMB - 1
       ELSE P[1] % Pow2(13 + sh) = Pow2(13 + sh) - 1
    /\ P[2] = LIMB - 1
    /\ P[3] = LIMB - 1
    /\ P[4] \div Pow2(k) = Pow2(13 - k) - 1

\* the integer part of the product before rounding
Whole(top, P, sh) ==
    IF sh >= 0 THEN top \div Pow2(sh)
    ELSE top * Pow2(0 - sh) + P[1] \div Pow2(13 + sh)

\* the product top * 2^52 + P, of k + 53 bits, rounded to 53 bits and
\* truncated at the binary point
RoundTrunc(top, P, k, sh) ==
    IF /\ RoundsUp(P[4] % Pow2(k), Pow2(k - 1),
                   IF k < 13 THEN (P[4] \div Pow2(k)) % 2 ELSE P[3] % 2, k)
       /\ AllOnes(top, P, k, sh)
    THEN Whole(top, P, sh) + 1
    ELSE Whole(top, P, sh)

MulRound(top, P, sh) ==
    CHOOSE m \in { RoundTrunc(top, P, k, sh) : k \in {BitLen(top) - 1} } : TRUE

\* int(q * e) for a double q > 0 and an integer e > 0: the product is
\* rounded to a double, then truncated
float_mul_int(q, e) ==
    CHOOSE m \in { MulRound(q.lead * e + c[2], c[1], q.sh) :
                    c \in {Carries(q.L[1] * e, q.L[2] * e, q.L[3] * e, q.L[4] * e)} } :
        TRUE

Signed(n, e, m) == IF (n < 0) = (e < 0) THEN m ELSE 0 - m

ScaleInts(x, y) ==
    IF x = 0 \/ y = 0 THEN 0
    ELSE CHOOSE m \in { Signed(x, y, float_mul_int(q, IF y < 0 THEN 0 - y ELSE y)) :
                         q \in {float_div_1000(IF x < 0 THEN 0 - x ELSE x)} } :
             TRUE

\* int(n / 1000 * e) in double arithmetic; int() truncates towards zero
float_scale(n, e) == CHOOSE m \in { ScaleInts(x, y) : x \in {n}, y \in {e} } : TRUE

\* capture._norm: int((coord / 1000.0) * extent)
norm(coord, extent) == float_scale(coord, extent)

\* execute._to_px: int(val / 1000 * dim)
to_px(val, dim) == float_scale(val, dim)

\* the threshold of the movement trail
TRAIL_MIN == 20

\* math.hypot(dx, dy) > r for integers
HypotGreater(dx, dy, r) == dx * dx + dy * dy > r * r

(***************************************************************************)
(* The annotators: each returns the drawing calls it issues, in order.     *)
(* A call is [op, a, c, g]: the primitive, its integer arguments in the    *)
(* order of the source, its colour and (for a glyph) the pattern.          *)
(***************************************************************************)

DrawCall(op, a, c) == [op |-> op, a |-> a, c |-> c, g |-> ""]
GlyphCall(x, y, g, scale) ==
    [op |-> "draw_glyph", a |-> << x, y, scale >>, c |-> ACTION_PRIMARY, g |-> g]

\* the prior point (px, py): << >> is (None, None)
NoPoint == << >>

\* _movement_trail drawing from the threshold on instead of beyond it
movement_trail_from_threshold(x, y, pxy) ==
    IF pxy # NoPoint
       /\ (x - pxy[1]) * (x - pxy[1]) + (y - pxy[2]) * (y - pxy[2]) >= TRAIL_MIN * TRAIL_MIN
    THEN << DrawCall("draw_dashed_arrow", << pxy[1], pxy[2], x, y, 2, 6, 4, 12, 30 >>,
                     ACTION_SECONDARY) >>
    ELSE << >>

movement_trail(x, y, pxy) ==
    IF pxy # NoPoint /\ HypotGreater(x - pxy[1], y - pxy[2], TRAIL_MIN)
    THEN << DrawCall("draw_dashed_arrow", << pxy[1], pxy[2], x, y, 2, 6, 4, 12, 30 >>,
                     ACTION_SECONDARY) >>
    ELSE << >>

annotate_left_click(x, y, pxy) ==
    movement_trail(x, y, pxy)
    \o << DrawCall("draw_burst", << x, y, 14, 24, 8, 2 >>, ACTION_PRIMARY),
          GlyphCall(x, y, "GLYPH_CURSOR", 1) >>

annotate_right_click(x, y, pxy) ==
    LET p == 20 IN
    movement_trail(x, y, pxy)
    \o << DrawCall("draw_line", << x - p, y - p, x + p, y - p, 2 >>, ACTION_PRIMARY),
          DrawCall("draw_line", << x + p, y - p, x + p, y + p, 2 >>, ACTION_PRIMARY),
          DrawCall("draw_line", << x + p, y + p, x - p, y + p, 2 >>, ACTION_PRIMARY),
          DrawCall("draw_line", << x - p, y + p, x - p, y - p, 2 >>, ACTION_PRIMARY),
          GlyphCall(x, y, "GLYPH_CURSOR_RIGHT", 1) >>

annotate_double_click(x, y, pxy) ==
    movement_trail(x, y, pxy)
    \o << DrawCall("draw_circle", << x, y, 18, 0 >>, ACTION_PRIMARY),
          DrawCall("draw_circle", << x, y, 28, 0 >>, ACTION_PRIMARY),
          DrawCall("draw_burst", << x, y, 30, 38, 8, 2 >>, ACTION_PRIMARY),
          GlyphCall(x, y, "GLYPH_CURSOR", 1) >>

annotate_drag(x1, y1, x2, y2, pxy) ==
    (IF pxy # NoPoint /\ HypotGreater(x1 - pxy[1], y1 - pxy[2], TRAIL_MIN)
     THEN << DrawCall("draw_dashed_arrow", << pxy[1], pxy[2], x1, y1, 1, 4, 4, 8, 30 >>,
                      ACTION_SECONDARY) >>
     ELSE << >>)
    \o << DrawCall("draw_circle", << x1, y1, 8, 1 >>, ACTION_PRIMARY),
          DrawCall("draw_dashed_arrow", << x1, y1, x2, y2, 3, 10, 6, 18, 25 >>,
                   ACTION_PRIMARY),
          DrawCall("draw_circle", << x2, y2, 10, 0 >>, ACTION_PRIMARY) >>

annotate_type(x, y) ==
    << GlyphCall(x - FloorDiv(IBEAM_W * 2, 2), y - FloorDiv(IBEAM_H * 2, 2),
                 "GLYPH_IBEAM", 2),
       DrawCall("draw_line", << x - 15, y + IBEAM_H + 4, x + 15, y + IBEAM_H + 4, 2 >>,
                ACTION_PRIMARY) >>

(***************************************************************************)
(* One iteration of the loop of _apply_annotations on `line`, with prior   *)
(* point pxy: whether it raises, the calls it issues, the new prior point. *)
(***************************************************************************)

Skipped(pxy) == [raised |-> FALSE, draws |-> << >>, pxy |-> pxy]
Raised(pxy) == [raised |-> TRUE, draws |-> << >>, pxy |-> pxy]

\* the body of a click case: int() of both arguments, then the annotator
ClickAt(name, x, y, pxy) ==
    [raised |-> FALSE,
     draws |-> CASE name = "left_click" -> annotate_left_click(x, y, pxy)
                 [] name = "right_click" -> annotate_right_click(x, y, pxy)
                 [] name = "double_left_click" -> annotate_double_click(x, y, pxy),
     pxy |-> << x, y >>]

ClickCase(name, args, w, h, pxy) ==
    IF IntRaises(args[1]) \/ IntRaises(args[2]) THEN Raised(pxy)
    ELSE ClickAt(name, norm(IntOf(args[1]), w), norm(IntOf(args[2]), h), pxy)

DragAt(x1, y1, x2, y2, pxy) ==
    [raised |-> FALSE, draws |-> annotate_drag(x1, y1, x2, y2, pxy), pxy |-> << x2, y2 >>]

DragCase(args, w, h, pxy) ==
    IF \E j \in 1 .. 4 : IntRaises(args[j]) THEN Raised(pxy)
    ELSE DragAt(norm(IntOf(args[1]), w), norm(IntOf(args[2]), h),
                norm(IntOf(args[3]), w), norm(IntOf(args[4]), h), pxy)

\* the argument text the loop evaluates: line[paren + 1 : line.rfind(')')]
ArgText(line, paren) == Slice(line, paren + 1, RFind(line, ")"))

AnnotateLine(line, w, h, pxy) ==
    LET paren == Find(line, "(")
        name == Strip(Slice(line, 0, paren))
        ev == EvalArgs(ArgText(line, paren))
        args == ev.args
    IN  IF paren = -1 THEN Skipped(pxy)
        ELSE IF ~ev.ok THEN Skipped(pxy)
        ELSE IF name \in {"left_click", "right_click", "double_left_click"}
                /\ Len(args) >= 2
            THEN ClickCase(name, args, w, h, pxy)
        ELSE IF name = "drag" /\ Len(args) >= 4 THEN DragCase(args, w, h, pxy)
        ELSE IF name = "type" /\ pxy # NoPoint
            THEN [raised |-> FALSE, draws |-> annotate_type(pxy[1], pxy[2]), pxy |-> pxy]
        ELSE Skipped(pxy)

(***************************************************************************)
(* execute.py: dispatch of one action line                                 *)
(***************************************************************************)

\* mouse_event flags
LDOWN == 2
LUP == 4
RDOWN == 8
RUP == 16

\* One OS input call made on behalf of `line` by the tool function fn.
\* A smooth move is recorded by the SetCursorPos call that ends it, the
\* key presses of one typed character by one keybd_event entry.
InputEvent(api, a, ch) == [api |-> api, a |-> a, ch |-> ch]

smooth_move(tx, ty) == << InputEvent("SetCursorPos", << tx, ty >>, "") >>

mouse_click(down, up) ==
    << InputEvent("mouse_event", << down >>, ""), InputEvent("mouse_event", << up >>, "") >>

type_text(text) ==
    [j \in 1 .. Len(text) |-> InputEvent("keybd_event", << >>, CharAt(text, j - 1))]

\* _to_px(val, dim) raises TypeError on a string
PxRaises(val) == val.t # "int"

\* A call of a tool function: the input calls it makes, and whether it ends
\* in an exception.  sw, sh are the screen metrics.
Returned(evs) == [raised |-> FALSE, events |-> evs]
Threw(evs) == [raised |-> TRUE, events |-> evs]

click(args, sw, sh, presses) ==
    IF Len(args) # 2 THEN Threw(<< >>)
    ELSE IF PxRaises(args[1]) \/ PxRaises(args[2]) THEN Threw(<< >>)
    ELSE Returned(smooth_move(to_px(args[1].v, sw), to_px(args[2].v, sh)) \o presses)

left_click(args, sw, sh) == click(args, sw, sh, mouse_click(LDOWN, LUP))

right_click(args, sw, sh) == click(args, sw, sh, mouse_click(RDOWN, RUP))

double_left_click(args, sw, sh) ==
    click(args, sw, sh, mouse_click(LDOWN, LUP) \o mouse_click(LDOWN, LUP))

drag(args, sw, sh) ==
    IF Len(args) # 4 THEN Threw(<< >>)
    ELSE IF PxRaises(args[1]) \/ PxRaises(args[2]) THEN Threw(<< >>)
    ELSE LET pressed == smooth_move(to_px(args[1].v, sw), to_px(args[2].v, sh))
                        \o << InputEvent("mouse_event", << LDOWN >>, "") >>
         IN  IF PxRaises(args[3]) \/ PxRaises(args[4]) THEN Threw(pressed)
             ELSE Returned(pressed
                           \o smooth_move(to_px(args[3].v, sw), to_px(args[4].v, sh))
                           \o << InputEvent("mouse_event", << LUP >>, "") >>)

type(args) ==
    IF Len(args) # 1 THEN Threw(<< >>)
    ELSE IF args[1].t # "str" THEN Threw(<< >>)
    ELSE Returned(type_text(args[1].s))

DISPATCH(name, args, sw, sh) ==
    CASE name = "left_click" -> left_click(args, sw, sh)
      [] name = "right_click" -> right_click(args, sw, sh)
      [] name = "double_left_click" -> double_left_click(args, sw, sh)
      [] name = "drag" -> drag(args, sw, sh)
      [] name = "type" -> type(args)
      [] name = "screenshot" -> Returned(<< >>)

\* eval(line, {"__builtins__": {}}, DISPATCH) of a line whose text before the
\* first "(" is the name of a tool: the line is a call when it ends with the
\* ")" that closes that "(" and the text between them is an argument list;
\* any other line of the modelled grammar is a SyntaxError, raised before
\* anything is called.
EvalLine(line, sw, sh) ==
    LET paren == Find(line, "(")
        name == Strip(Slice(line, 0, paren))
        body == Slice(line, paren + 1, Len(line) - 1)
        ev == EvalArgs(body)
    IN  IF CharAt(line, Len(line) - 1) # ")" THEN Threw(<< >>)
        ELSE IF Find(body, "(") # -1 \/ Find(body, ")") # -1 THEN Threw(<< >>)
        ELSE IF ~ev.ok THEN Threw(<< >>)
        ELSE DISPATCH(name, ev.args, sw, sh)

\* tools.get(name, True)
ToolActive(tools, name) == IF name \in DOMAIN tools THEN tools[name] ELSE TRUE

\* upper = stripped.upper(), with the trailing colons kept
header_key_with_colons(stripped) == Upper(stripped)

\* upper = stripped.upper().rstrip(":")
header_key(stripped) == RStripChar(Upper(stripped), ":")

\* the loop of _parse_actions from line j (1-based) on, in section `section`:
\* the lines appended to action_lines
RECURSIVE ParseFrom(_, _, _)
ParseFrom(lines, j, section) ==
    IF j > Len(lines) THEN << >>
    ELSE LET stripped == Strip(lines[j])
             upper == header_key(stripped)
         IN  IF upper = "NARRATIVE" THEN ParseFrom(lines, j + 1, "narrative")
             ELSE IF upper = "ACTIONS" THEN ParseFrom(lines, j + 1, "actions")
             ELSE IF section = "actions" /\ stripped # ""
                  THEN << stripped >> \o ParseFrom(lines, j + 1, section)
             ELSE ParseFrom(lines, j + 1, section)

parse_actions(raw) == ParseFrom(SplitLines(raw), 1, "")

\* try: eval(line, ...); executed.append(line) / except Exception:
\* noted.append(line), for the outcome r of the eval
Evaluated(line, name, r) ==
    [list |-> IF r.raised THEN "noted" ELSE "executed",
     shot |-> FALSE,
     events |-> [j \in 1 .. Len(r.events) |->
                    [line |-> line, fn |-> name, api |-> r.events[j].api,
                     a |-> r.events[j].a, ch |-> r.events[j].ch]]]

\* the loop body of execute.main for one line: what it appends and dispatches
ExecStep(line, tools, master_execute, sw, sh) ==
    LET paren == Find(line, "(")
        name == Strip(Slice(line, 0, paren))
        none == [list |-> "", shot |-> FALSE, events |-> << >>]
    IN  IF paren = -1 THEN none
        ELSE IF name \notin KNOWN_FUNCTIONS THEN none
        ELSE IF name = "screenshot" THEN [none EXCEPT !.list = "noted", !.shot = TRUE]
        ELSE IF ~master_execute \/ ~ToolActive(tools, name)
            THEN [none EXCEPT !.list = "noted"]
        ELSE Evaluated(line, name, EvalLine(line, sw, sh))

(***************************************************************************)
(* capture.py: the GDI calls.  `os` says which calls the system lets       *)
(* succeed; a failed call returns NULL or 0 and raises nothing.            *)
(***************************************************************************)

If(b, S) == IF b THEN S ELSE {}

\* the outcomes of the calls of _capture_bgra and of _downsample_bgra
CaptureOutcomes ==
    [GetDC : BOOLEAN, CreateCompatibleDC : BOOLEAN, CreateDIBSection : BOOLEAN,
     BitBlt : BOOLEAN]

DownsampleOutcomes ==
    [GetDC : BOOLEAN, SrcDC : BOOLEAN, DstDC : BOOLEAN, CreateCompatibleBitmap : BOOLEAN,
     SetDIBits : BOOLEAN, CreateDIBSection : BOOLEAN, StretchBlt : BOOLEAN]

\* _capture_bgra: the handles still held when it ends, and its result.
\* bits stays NULL when CreateDIBSection fails, and from_address(None)
\* raises TypeError before any handle is released.  The section's memory
\* holds the screen only if BitBlt copied it there.
capture_bgra(sw, sh, os) ==
    LET acquired == If(os.GetDC, {"sdc"}) \cup If(os.CreateCompatibleDC, {"memdc"})
                    \cup If(os.CreateDIBSection, {"hbmp"})
        copied == os.GetDC /\ os.CreateCompatibleDC /\ os.BitBlt
    IN  IF ~os.CreateDIBSection
        THEN [raised |-> TRUE, handles |-> acquired, frame |-> << >>]
        ELSE [raised |-> FALSE,
              handles |-> ((acquired \ {"hbmp"}) \ {"memdc"}) \ {"sdc"},
              frame |-> << [w |-> sw, h |-> sh, fmt |-> "bgra",
                            content |-> IF copied THEN "screen" ELSE "uncaptured",
                            resampled |-> FALSE] >>]

\* _downsample_bgra, likewise: the destination section holds the scaled
\* source only if every call up to StretchBlt did its work
downsample_bgra(src, dw, dh, os) ==
    LET acquired == If(os.GetDC, {"sdc"}) \cup If(os.SrcDC, {"src_dc"})
                    \cup If(os.DstDC, {"dst_dc"})
                    \cup If(os.CreateCompatibleBitmap, {"src_bmp"})
                    \cup If(os.CreateDIBSection, {"dst_bmp"})
        scaled == /\ os.GetDC /\ os.SrcDC /\ os.DstDC /\ os.CreateCompatibleBitmap
                  /\ os.SetDIBits /\ os.StretchBlt
    IN  IF ~os.CreateDIBSection
        THEN [raised |-> TRUE, handles |-> acquired, frame |-> << >>]
        ELSE [raised |-> FALSE,
              handles |-> ((((acquired \ {"dst_bmp"}) \ {"src_bmp"}) \ {"dst_dc"})
                           \ {"src_dc"}) \ {"sdc"},
              frame |-> << [w |-> dw, h |-> dh, fmt |-> "bgra",
                            content |-> IF scaled THEN src.content ELSE "uncaptured",
                            resampled |-> TRUE] >>]

bgra_to_rgba(bgra) == [bgra EXCEPT !.fmt = "rgba"]

\* the test of capture() with the marks flag left out
ShouldAnnotate_without_marks(marks, actions) == actions # << >>

\* capture(): `if marks and actions`
ShouldAnnotate(marks, actions) == marks /\ actions # << >>

\* _encode_png and base64 of a buffer: the image of that buffer
encode_png(rgba, draws) == [frame |-> rgba, draws |-> draws]

(***************************************************************************)
(* _encode_png byte for byte.  Bytes are numbers 0 .. 255; a 32-bit word   *)
(* is its four bytes, most significant first.                              *)
(***************************************************************************)

\* a ^ b on bytes
RECURSIVE Xor(_, _)
Xor(a, b) ==
    IF a = 0 THEN b
    ELSE IF b = 0 THEN a
    ELSE ((a + b) % 2) + 2 * Xor(a \div 2, b \div 2)

XorWord(u, v) == [j \in 1 .. 4 |-> Xor(u[j], v[j])]

\* one of the eight shifts zlib.crc32 makes per byte: c >> 1, xor the
\* reflected polynomial 0xEDB88320 when the bit shifted out is set
CrcShift(c) ==
    LET shifted == << c[1] \div 2,
                      c[2] \div 2 + (c[1] % 2) * 128,
                      c[3] \div 2 + (c[2] % 2) * 128,
                      c[4] \div 2 + (c[3] % 2) * 128 >>
    IN  IF c[4] % 2 = 1 THEN XorWord(shifted, << 237, 184, 131, 32 >>) ELSE shifted

CrcByte(c, byte) ==
    CrcShift(CrcShift(CrcShift(CrcShift(CrcShift(CrcShift(CrcShift(CrcShift(
        << c[1], c[2], c[3], Xor(c[4], byte) >>))))))))

\* the crc register after the bytes of bs, first half then second half
RECURSIVE CrcRun(_, _)
CrcRun(c, bs) ==
    LET n == Len(bs) IN
    IF n = 0 THEN c
    ELSE IF n = 1 THEN CrcByte(c, bs[1])
    ELSE LET c1 == CrcRun(c, SubSeq(bs, 1, n \div 2)) IN
         IF c1[1] >= 0 THEN CrcRun(c1, SubSeq(bs, n \div 2 + 1, n)) ELSE c1

\* zlib.crc32(bs) & 0xFFFFFFFF
crc32(bs) == XorWord(CrcRun(<< 255, 255, 255, 255 >>, bs), << 255, 255, 255, 255 >>)

\* struct.pack(">I", n) for n below 2^31
pack_I(n) == << n \div 16777216, (n \div 65536) % 256, (n \div 256) % 256, n % 256 >>

\* the sums of Adler-32 after the bytes of bs
RECURSIVE AdlerRun(_, _)
AdlerRun(ab, bs) ==
    LET n == Len(bs) IN
    IF n = 0 THEN ab
    ELSE IF n = 1 THEN LET a == (ab[1] + bs[1]) % 65521 IN << a, (ab[2] + a) % 65521 >>
    ELSE LET ab1 == AdlerRun(ab, SubSeq(bs, 1, n \div 2)) IN
         IF ab1[1] >= 0 THEN AdlerRun(ab1, SubSeq(bs, n \div 2 + 1, n)) ELSE ab1

adler32(bs) ==
    LET ab == AdlerRun(<< 1, 0 >>, bs) IN
    << ab[2] \div 256, ab[2] % 256, ab[1] \div 256, ab[1] % 256 >>

\* zlib.compress(raw, 6).  The deflate coding is the library's; the stream
\* is taken as the zlib stream that carries raw in one stored block (header
\* 78 9C, block header 01, LEN, ~LEN, the bytes, Adler-32), which inflates
\* to raw as the library's stream does.  Len(raw) is below 65536.
compress(raw) ==
    LET n == Len(raw) IN
    << 120, 156, 1, n % 256, n \div 256, 255 - (n % 256), 255 - (n \div 256) >>
    \o raw \o adler32(raw)

TAG_IHDR == << 73, 72, 68, 82 >>
TAG_IDAT == << 73, 68, 65, 84 >>
TAG_IEND == << 73, 69, 78, 68 >>
PNG_SIGNATURE == << 137, 80, 78, 71, 13, 10, 26, 10 >>

\* _chunk with the CRC taken over the body alone
chunk_crc_of_body(tag, body) == pack_I(Len(body)) \o tag \o body \o crc32(body)

chunk(tag, body) == pack_I(Len(body)) \o tag \o body \o crc32(tag \o body)

\* raw: for each y a zero byte, then rgba[y * stride : (y + 1) * stride]
RECURSIVE Raw(_, _, _, _)
Raw(rgba, stride, h, y) ==
    IF y >= h THEN << >>
    ELSE << 0 >> \o Slice(rgba, y * stride, (y + 1) * stride) \o Raw(rgba, stride, h, y + 1)

encode_png_bytes(rgba, w, h) ==
    LET stride == w * 4
        raw == Raw(rgba, stride, h, 0)
        ihdr == pack_I(w) \o pack_I(h) \o << 8, 6, 0, 0, 0 >>
        idat == compress(raw)
    IN  PNG_SIGNATURE \o chunk(TAG_IHDR, ihdr) \o chunk(TAG_IDAT, idat)
        \o chunk(TAG_IEND, << >>)

(***************************************************************************)
(* The pixel primitives of capture.py on a bytearray.  A buffer is         *)
(* [bytes, raised, dropped]: the bytes; whether a store raised IndexError  *)
(* (no statement after the raise is executed); whether a _set_pixel call   *)
(* fell outside its guard and wrote nothing.                               *)
(***************************************************************************)

\* data[i] = v on a bytearray: a negative index counts from the end, an
\* index outside -len .. len - 1 raises IndexError
setitem(b, i, v) ==
    LET n == Len(b.bytes) IN
    IF b.raised THEN b
    ELSE IF i >= n \/ i < 0 - n THEN [b EXCEPT !.raised = TRUE]
    ELSE [b EXCEPT !.bytes[(IF i < 0 THEN i + n ELSE i) + 1] = v]

\* _set_pixel with the test of x against the width left out
set_pixel_no_width_test(b, w, h, x, y, c) ==
    IF 0 <= x /\ 0 <= y /\ y < h
    THEN LET i == (y * w + x) * 4 IN
         setitem(setitem(setitem(setitem(b, i, c[1]), i + 1, c[2]), i + 2, c[3]),
                 i + 3, c[4])
    ELSE [b EXCEPT !.dropped = TRUE]

set_pixel(b, w, h, x, y, c) ==
    IF 0 <= x /\ x < w /\ 0 <= y /\ y < h
    THEN LET i == (y * w + x) * 4 IN
         setitem(setitem(setitem(setitem(b, i, c[1]), i + 1, c[2]), i + 2, c[3]),
                 i + 3, c[4])
    ELSE [b EXCEPT !.dropped = TRUE]

\* the calls _set_pixel(d, w, h, x, y, c) for the << x, y, c >> of ps, in
\* order: those of the first half of ps, then those of the second half
RECURSIVE plot(_, _, _, _)
plot(b, w, h, ps) ==
    LET n == Len(ps) IN
    IF n = 0 THEN b
    ELSE IF n = 1 THEN set_pixel(b, w, h, ps[1][1], ps[1][2], ps[1][3])
    ELSE LET b1 == plot(b, w, h, SubSeq(ps, 1, n \div 2)) IN
         IF b1.raised THEN b1 ELSE plot(b1, w, h, SubSeq(ps, n \div 2 + 1, n))

\* the concatenation of the sequences of ss
RECURSIVE Flatten(_)
Flatten(ss) ==
    LET n == Len(ss) IN
    IF n = 0 THEN << >>
    ELSE IF n = 1 THEN ss[1]
    ELSE Flatten(SubSeq(ss, 1, n \div 2)) \o Flatten(SubSeq(ss, n \div 2 + 1, n))

\* the m-th pair (ox, oy) of `for oy in range(lo, hi + 1): for ox in range(lo, hi + 1)`
Square(lo, hi) ==
    LET side == hi - lo + 1 IN
    [m \in 1 .. side * side |-> << lo + ((m - 1) % side), lo + ((m - 1) \div side) >>]

set_pixel_thick(b, w, h, x, y, c, t) ==
    LET half == t \div 2
        sq == Square(0 - half, half)
    IN  plot(b, w, h, [m \in DOMAIN sq |-> << x + sq[m][1], y + sq[m][2], c >>])

\* the points the loop of _draw_line stamps, from (x, y) with error term err
RECURSIVE LineSteps(_, _, _, _, _, _, _, _, _)
LineSteps(x, y, x2, y2, dx, dy, sx, sy, err) ==
    IF x = x2 /\ y = y2 THEN << << x, y >> >>
    ELSE LET e2 == err * 2
             stepx == e2 > 0 - dy
             err1 == IF stepx THEN err - dy ELSE err
             stepy == e2 < dx
             err2 == IF stepy THEN err1 + dx ELSE err1
         IN  << << x, y >> >>
             \o LineSteps(IF stepx THEN x + sx ELSE x, IF stepy THEN y + sy ELSE y,
                          x2, y2, dx, dy, sx, sy, err2)

\* the calls _set_pixel_thick(d, w, h, x, y, c, t) for the << x, y >> of ps
RECURSIVE stamp(_, _, _, _, _, _)
stamp(b, w, h, ps, c, t) ==
    IF ps = << >> THEN b
    ELSE LET b1 == set_pixel_thick(b, w, h, ps[1][1], ps[1][2], c, t) IN
         IF b1.raised THEN b1 ELSE stamp(b1, w, h, Tail(ps), c, t)

Abs(n) == IF n < 0 THEN 0 - n ELSE n
Min(a, b) == IF a < b THEN a ELSE b
Max(a, b) == IF a > b THEN a ELSE b

draw_line(b, w, h, x1, y1, x2, y2, c, t) ==
    LET dx == Abs(x2 - x1)
        dy == Abs(y2 - y1)
        sx == IF x1 < x2 THEN 1 ELSE -1
        sy == IF y1 < y2 THEN 1 ELSE -1
    IN  stamp(b, w, h, LineSteps(x1, y1, x2, y2, dx, dy, sx, sy, dx - dy), c, t)

\* int(math.hypot(dx, dy)): the integer part of the square root
IntHypot(dx, dy) ==
    LET n == dx * dx + dy * dy IN
    CHOOSE r \in 0 .. n : r * r <= n /\ (r + 1) * (r + 1) > n

\* int(x1 + dx * (i / dist)) is taken on the exact quotient
draw_dashed_line(b, w, h, x1, y1, x2, y2, c, t, dash, gap) ==
    LET dx == x2 - x1
        dy == y2 - y1
        dist == Max(1, IntHypot(dx, dy))
        cycle == dash + gap
        on(j) == (j % cycle) < dash
        js == SelectSeq([m \in 1 .. dist + 1 |-> m - 1], on)
    IN  stamp(b, w, h,
              [m \in DOMAIN js |-> << Trunc(x1 * dist + dx * js[m], dist),
                                      Trunc(y1 * dist + dy * js[m], dist) >>],
              c, t)

draw_circle(b, w, h, cx, cy, r, c, filled) ==
    LET r2 == r * r
        inner2 == (r - 2) * (r - 2)
        hit(o) == LET dist2 == o[1] * o[1] + o[2] * o[2] IN
                  IF filled THEN dist2 <= r2 ELSE inner2 <= dist2 /\ dist2 <= r2
        os == SelectSeq(Square(0 - r, r), hit)
    IN  plot(b, w, h, [m \in DOMAIN os |-> << cx + os[m][1], cy + os[m][2], c >>])

edge(px, py, ax, ay, bx, by) == (px - bx) * (ay - by) - (ax - bx) * (py - by)

fill_triangle(b, w, h, x1, y1, x2, y2, x3, y3, c) ==
    LET lo_x == Max(0, Min(x1, Min(x2, x3)))
        hi_x == Min(w - 1, Max(x1, Max(x2, x3)))
        lo_y == Max(0, Min(y1, Min(y2, y3)))
        hi_y == Min(h - 1, Max(y1, Max(y2, y3)))
        nx == Max(0, hi_x - lo_x + 1)
        ny == Max(0, hi_y - lo_y + 1)
        inside(p) ==
            LET d1 == edge(p[1], p[2], x1, y1, x2, y2)
                d2 == edge(p[1], p[2], x2, y2, x3, y3)
                d3 == edge(p[1], p[2], x3, y3, x1, y1)
            IN  ~((d1 < 0 \/ d2 < 0 \/ d3 < 0) /\ (d1 > 0 \/ d2 > 0 \/ d3 > 0))
        ps == SelectSeq([m \in 1 .. nx * ny |->
                            << lo_x + ((m - 1) % nx), lo_y + ((m - 1) \div nx) >>],
                        inside)
    IN  plot(b, w, h, [m \in DOMAIN ps |-> << ps[m][1], ps[m][2], c >>])

\* the pixels of the glyph cell at row ri, column ci, over sy then sx
Cell(x, y, ri, ci, clr, scale) ==
    [m \in 1 .. scale * scale |->
        << x + ci * scale + ((m - 1) % scale), y + ri * scale + ((m - 1) \div scale), clr >>]

\* the pixels of a glyph in the order of the loops over its rows and columns
GlyphCells(x, y, glyph, primary, outline, scale) ==
    LET cell(ri, ci) ==
            LET ch == CharAt(glyph[ri + 1], ci) IN
            IF ch = " " THEN << >>
            ELSE Cell(x, y, ri, ci, IF ch = "#" THEN primary ELSE outline, scale)
        row(ri) == Flatten([m \in 1 .. Len(glyph[ri + 1]) |-> cell(ri, m - 1)])
    IN  Flatten([m \in 1 .. Len(glyph) |-> row(m - 1)])

draw_glyph(b, w, h, x, y, glyph, primary, outline, scale) ==
    plot(b, w, h, GlyphCells(x, y, glyph, primary, outline, scale))

(***************************************************************************)
(* Inputs of the model                                                     *)
(***************************************************************************)

\* the longest list of action lines of a capture request
MaxLines == 3

\* the longest ACTIONS section of an executor request
MaxExecLines == 2

\* action lines a capture request may carry
CaptureLines ==
    {"left_click(500,500)", "right_click(528,500)", "double_left_click(900,100)",
     "drag(510,510,100,100)", "type('hi')", "screenshot()",
     "left_click(500)", "foo(1,2)", "hello",
     "left_click(500,500", "left_click('a',5)"}

\* lines of an ACTIONS section
ExecLines ==
    {"left_click(500,500)", "right_click(528,500)", "drag(510,510,100,100)",
     "type('hi')", "screenshot()", "foo(1,2)", "hello",
     "left_click(500,500", "drag(100,100,200,'x')"}

\* the tool states a request may carry: none given, all on (main.py), one off
ToolStates ==
    {<< >>,
     [left_click |-> TRUE, right_click |-> TRUE, double_left_click |-> TRUE,
      drag |-> TRUE, type |-> TRUE, screenshot |-> TRUE],
     [left_click |-> FALSE, right_click |-> TRUE, double_left_click |-> TRUE,
      drag |-> TRUE, type |-> TRUE, screenshot |-> TRUE]}

\* the screen metrics GetSystemMetrics may report: the target size, a larger one
\* (on both, the double arithmetic of _norm and _to_px gives the exact quotient)
Screens == {<< WIDTH, HEIGHT >>, << 1920, 1080 >>}

SeqsUpTo(S, n) == UNION {[1 .. m -> S] : m \in 0 .. n}

\* the size of the buffer the pixel primitives are run on
DrawW == 2
DrawH == 2

\* coordinates on both edges of the buffer and off it on either side
Xs == {-2, -1, 0, DrawW - 1, DrawW, DrawW + 1}
Ys == {-2, -1, 0, DrawH - 1, DrawH, DrawH + 1}
EdgeXs == {-1, 0, DrawW - 1, DrawW}
EdgeYs == {-1, 0, DrawH - 1, DrawH}
LineEnds == {-2, 0, DrawW + 1} \X {-1, DrawH - 1, DrawH + 1}
Centres == {-1, 0, DrawW} \X {-1, DrawH - 1, DrawH}
Corners == {<< -2, -1 >>, << DrawW + 1, 0 >>, << 0, DrawH + 1 >>, << DrawW - 1, -2 >>}
Origins == ({-1, 0, DrawW - 1} \X {-1, 0}) \cup {<< -10, -10 >>, << -4, -13 >>}

\* the calls of the pixel primitives the model makes
DrawCalls ==
    {DrawCall("set_pixel", << x, y >>, ACTION_PRIMARY) : x \in Xs, y \in Ys}
    \cup {DrawCall("set_pixel_thick", << x, y, t >>, ACTION_PRIMARY) :
              x \in EdgeXs, y \in EdgeYs, t \in {1, 2, 3}}
    \cup {DrawCall("draw_line", << p[1], p[2], q[1], q[2], t >>, ACTION_PRIMARY) :
              p \in LineEnds, q \in LineEnds, t \in {1, 3}}
    \cup {DrawCall("draw_dashed_line", << p[1], p[2], q[1], q[2], 1, 4, 4 >>,
                   ACTION_PRIMARY) : p \in LineEnds, q \in LineEnds}
    \cup {DrawCall("draw_circle", << p[1], p[2], r, f >>, ACTION_PRIMARY) :
              p \in Centres, r \in {1, 2, 3}, f \in {0, 1}}
    \cup {DrawCall("fill_triangle", << p[1], p[2], q[1], q[2], r[1], r[2] >>,
                   ACTION_PRIMARY) : p \in Corners, q \in Corners, r \in Corners}
    \cup {[op |-> "draw_glyph", a |-> << p[1], p[2], sc >>, c |-> ACTION_PRIMARY, g |-> g] :
              p \in Origins, sc \in {1, 2},
              g \in {"GLYPH_CURSOR", "GLYPH_CURSOR_RIGHT", "GLYPH_IBEAM"}}

\* a buffer of w * h pixels, every byte zero
Blank(w, h) == [j \in 1 .. w * h * 4 |-> 0]

(***************************************************************************)
(* State                                                                   *)
(***************************************************************************)

VARIABLES
    entry,            \* the program started: "execute" or "capture"
    pc,               \* the step the running program is at
    screen,           \* << _screen_w, _screen_h >>
    action_lines,     \* execute.main: the parsed ACTIONS lines
    tools,            \* execute.main: per-tool active states
    master_execute,   \* execute.main: the master switch
    i,                \* execute.main: lines of action_lines processed
    executed,         \* execute.main
    noted,            \* execute.main
    wants_screenshot, \* execute.main
    events,           \* the OS input calls made so far
    output,           \* execute.main: << >> or << the JSON written to stdout >>
    actions,          \* capture: the request's action lines
    marks,            \* capture: the request's marks flag
    handles,          \* the GDI handles the capture process holds
    frame,            \* capture: << >> or << the buffer: bgra, then rgba >>
    k,                \* _apply_annotations: lines of actions processed
    pxy,              \* _apply_annotations: the prior point (px, py)
    drawn,            \* _apply_annotations: drawing calls applied to the buffer
    err,              \* "" or the step of capture that raised
    png,              \* capture: << >> or << the image written to stdout >>
    data,             \* the bytearray the pixel primitives draw on
    call,             \* << >> or << the primitive call being made >>
    fault,            \* a primitive raised IndexError
    dropped,          \* the last primitive made a _set_pixel call off the buffer
    seg,              \* << >> or << the locals of the running _draw_line >>
    raw,              \* the response text: execute.main's raw, main's raw (<< >> is None)
    responses,        \* main.py: the contents of the injected response files
    taken,            \* main.py: responses the iterator has yielded
    story,            \* main.py: state.story
    turn,             \* main.py: state.turn
    runs              \* main.py: the executor runs so far, each [raw, events]

execVars == << action_lines, tools, master_execute, i, executed, noted,
               wants_screenshot, events, output >>
capVars == << actions, marks, handles, frame, k, pxy, drawn, err, png >>
drawVars == << data, call, fault, dropped, seg >>
mainVars == << raw, responses, taken, story, turn, runs >>
vars == << entry, pc, screen, execVars, capVars, drawVars, mainVars >>

MainIdle ==
    /\ raw = ""
    /\ responses = << >>
    /\ taken = 0
    /\ story = ""
    /\ turn = 0
    /\ runs = << >>

\* no pixel primitive is being exercised
DrawIdle ==
    /\ data = << >>
    /\ call = << >>
    /\ fault = FALSE
    /\ dropped = FALSE
    /\ seg = << >>

CaptureStart ==
    /\ handles = {}
    /\ frame = << >>
    /\ k = 0
    /\ pxy = NoPoint
    /\ drawn = << >>
    /\ err = ""
    /\ png = << >>

\* execute.py started on a request
InitExecute ==
    /\ entry = "execute"
    /\ pc = "exec_loop"
    /\ screen \in Screens
    /\ action_lines \in SeqsUpTo(ExecLines, MaxExecLines)
    /\ tools \in ToolStates
    /\ master_execute \in BOOLEAN
    /\ marks \in BOOLEAN
    /\ i = 0
    /\ executed = << >>
    /\ noted = << >>
    /\ wants_screenshot = FALSE
    /\ events = << >>
    /\ output = << >>
    /\ actions = << >>
    /\ CaptureStart
    /\ MainIdle
    /\ DrawIdle

\* capture.py started on a request
InitCapture ==
    /\ entry = "capture"
    /\ pc = "capture_bgra"
    /\ screen \in Screens
    /\ actions \in SeqsUpTo(CaptureLines, MaxLines)
    /\ marks \in BOOLEAN
    /\ action_lines = << >>
    /\ tools = << >>
    /\ master_execute = TRUE
    /\ i = 0
    /\ executed = << >>
    /\ noted = << >>
    /\ wants_screenshot = FALSE
    /\ events = << >>
    /\ output = << >>
    /\ CaptureStart
    /\ MainIdle
    /\ DrawIdle

(***************************************************************************)
(* execute.main                                                            *)
(***************************************************************************)

\* what one iteration leaves in executed, noted, wants_screenshot and the
\* input calls made, for the outcome r of the loop body
ExecAppend(line, r) ==
    /\ executed' = IF r.list = "executed" THEN Append(executed, line) ELSE executed
    /\ noted' = IF r.list = "noted" THEN Append(noted, line) ELSE noted
    /\ wants_screenshot' = (wants_screenshot \/ r.shot)
    /\ events' = events \o r.events

\* one iteration of `for line in action_lines`
ExecLine ==
    /\ pc = "exec_loop"
    /\ i < Len(action_lines)
    /\ ExecAppend(action_lines[i + 1],
                  ExecStep(action_lines[i + 1], tools, master_execute, screen[1], screen[2]))
    /\ i' = i + 1
    /\ UNCHANGED << entry, mainVars, pc, screen, action_lines, tools, master_execute, output, capVars, drawVars >>

\* all_actions = executed + noted; _run_capture(all_actions, width, height, marks)
RunCapture ==
    /\ pc = "exec_loop"
    /\ i = Len(action_lines)
    /\ actions' = executed \o noted
    /\ pc' = "capture_bgra"
    /\ UNCHANGED << entry, mainVars, screen, execVars, marks, handles, frame, k, pxy, drawn, err, png, drawVars >>

\* the JSON written once the capture subprocess has ended
ExecOutput ==
    /\ entry = "execute"
    /\ pc \in {"cap_done", "cap_failed"}
    /\ output' = << [executed |-> executed, noted |-> noted,
                     wants_screenshot |-> wants_screenshot, screenshot_b64 |-> png] >>
    /\ pc' = "exit"
    /\ UNCHANGED << entry, mainVars, screen, action_lines, tools, master_execute, i, executed, noted,
                    wants_screenshot, events, capVars, drawVars >>

(***************************************************************************)
(* capture.capture                                                         *)
(***************************************************************************)

CaptureBgra ==
    /\ pc = "capture_bgra"
    /\ \E os \in CaptureOutcomes :
          LET r == capture_bgra(screen[1], screen[2], os) IN
          /\ handles' = r.handles
          /\ frame' = r.frame
          /\ err' = IF r.raised THEN "capture_bgra" ELSE ""
          /\ pc' = IF r.raised THEN "cap_failed"
                   ELSE IF screen # << WIDTH, HEIGHT >> THEN "downsample"
                   ELSE "normalize"
    /\ UNCHANGED << entry, mainVars, screen, execVars, actions, marks, k, pxy, drawn, png, drawVars >>

Downsample ==
    /\ pc = "downsample"
    /\ \E os \in DownsampleOutcomes :
          LET r == downsample_bgra(frame[1], WIDTH, HEIGHT, os) IN
          /\ handles' = r.handles
          /\ frame' = r.frame
          /\ err' = IF r.raised THEN "downsample_bgra" ELSE ""
          /\ pc' = IF r.raised THEN "cap_failed" ELSE "normalize"
    /\ UNCHANGED << entry, mainVars, screen, execVars, actions, marks, k, pxy, drawn, png, drawVars >>

Normalize ==
    /\ pc = "normalize"
    /\ frame' = << bgra_to_rgba(frame[1]) >>
    /\ pc' = IF ShouldAnnotate(marks, actions) THEN "annotate" ELSE "encode"
    /\ UNCHANGED << entry, mainVars, screen, execVars, actions, marks, handles, k, pxy, drawn, err, png, drawVars >>

\* one iteration of `for line in actions` of _apply_annotations
Annotate ==
    /\ pc = "annotate"
    /\ k < Len(actions)
    /\ LET r == AnnotateLine(actions[k + 1], frame[1].w, frame[1].h, pxy) IN
          /\ drawn' = drawn \o r.draws
          /\ pxy' = r.pxy
          /\ err' = IF r.raised THEN "apply_annotations" ELSE ""
          /\ k' = IF r.raised THEN k ELSE k + 1
          /\ pc' = IF r.raised THEN "cap_failed"
                   ELSE IF k + 1 = Len(actions) THEN "encode"
                   ELSE "annotate"
    /\ UNCHANGED << entry, mainVars, screen, execVars, actions, marks, handles, frame, png, drawVars >>

Encode ==
    /\ pc = "encode"
    /\ png' = << encode_png(frame[1], drawn) >>
    /\ pc' = "cap_done"
    /\ UNCHANGED << entry, mainVars, screen, execVars, actions, marks, handles, frame, k, pxy, drawn, err, drawVars >>

NextCapture == CaptureBgra \/ Downsample \/ Normalize \/ Annotate \/ Encode

Next == ExecLine \/ RunCapture \/ ExecOutput \/ NextCapture

\* execute.py on a request, with the capture subprocess it runs
Spec == InitExecute /\ [][Next]_vars

\* capture.py on a request of its own
SpecCapture == InitCapture /\ [][NextCapture]_vars

(***************************************************************************)
(* The pixel primitives on a buffer                                        *)
(***************************************************************************)

\* the primitive a call names, applied to buffer b of w * h pixels
Draw(b, w, h, d) ==
    CASE d.op = "set_pixel" -> set_pixel(b, w, h, d.a[1], d.a[2], d.c)
      [] d.op = "set_pixel_thick" ->
            set_pixel_thick(b, w, h, d.a[1], d.a[2], d.c, d.a[3])
      [] d.op = "draw_line" ->
            draw_line(b, w, h, d.a[1], d.a[2], d.a[3], d.a[4], d.c, d.a[5])
      [] d.op = "draw_dashed_line" ->
            draw_dashed_line(b, w, h, d.a[1], d.a[2], d.a[3], d.a[4], d.c,
                             d.a[5], d.a[6], d.a[7])
      [] d.op = "draw_circle" ->
            draw_circle(b, w, h, d.a[1], d.a[2], d.a[3], d.c, d.a[4] = 1)
      [] d.op = "fill_triangle" ->
            fill_triangle(b, w, h, d.a[1], d.a[2], d.a[3], d.a[4], d.a[5], d.a[6], d.c)
      [] d.op = "draw_glyph" ->
            draw_glyph(b, w, h, d.a[1], d.a[2], Glyph(d.g), d.c, d.c, d.a[3])

\* a w * h buffer of zero bytes, no primitive called yet
InitDraw ==
    /\ entry = "draw"
    /\ pc = "draw"
    /\ screen = << DrawW, DrawH >>
    /\ data = Blank(DrawW, DrawH)
    /\ call = << >>
    /\ fault = FALSE
    /\ dropped = FALSE
    /\ seg = << >>
    /\ action_lines = << >>
    /\ tools = << >>
    /\ master_execute = TRUE
    /\ i = 0
    /\ executed = << >>
    /\ noted = << >>
    /\ wants_screenshot = FALSE
    /\ events = << >>
    /\ output = << >>
    /\ actions = << >>
    /\ marks = TRUE
    /\ CaptureStart
    /\ MainIdle

\* a caller calls a primitive on the buffer
CallPrimitive ==
    /\ pc = "draw"
    /\ call = << >>
    /\ ~fault
    /\ \E d \in DrawCalls : call' = << d >>
    /\ dropped' = FALSE
    /\ UNCHANGED << entry, mainVars, pc, screen, execVars, capVars, data, fault, seg >>

\* the primitive runs to its return, or to the IndexError of a store
RunPrimitive ==
    /\ pc = "draw"
    /\ call # << >>
    /\ LET r == Draw([bytes |-> data, raised |-> FALSE, dropped |-> FALSE],
                     screen[1], screen[2], call[1])
       IN  /\ data' = r.bytes
           /\ fault' = r.raised
           /\ dropped' = r.dropped
    /\ call' = << >>
    /\ UNCHANGED << entry, mainVars, pc, screen, execVars, capVars, seg >>

NextDraw == CallPrimitive \/ RunPrimitive

\* any sequence of primitive calls on one buffer
SpecDraw == InitDraw /\ [][NextDraw]_vars

(***************************************************************************)
(* _encode_png on its own: a width x height RGBA buffer is encoded once.   *)
(***************************************************************************)

MaxSide == 4

\* buffers of w * h * 4 bytes: blank, one colour, a different byte at every
\* offset, a different byte in every row
Buffers(w, h) ==
    { Blank(w, h),
      [j \in 1 .. w * h * 4 |-> ACTION_PRIMARY[((j - 1) % 4) + 1]],
      [j \in 1 .. w * h * 4 |-> (j * 37) % 256],
      [j \in 1 .. w * h * 4 |-> 201 + ((j - 1) \div (w * 4))] }

InitEncode ==
    /\ entry = "encode"
    /\ pc = "encode_png"
    /\ \E w \in 1 .. MaxSide, h \in 1 .. MaxSide :
          /\ screen = << w, h >>
          /\ data \in Buffers(w, h)
    /\ call = << >>
    /\ fault = FALSE
    /\ dropped = FALSE
    /\ seg = << >>
    /\ action_lines = << >>
    /\ tools = << >>
    /\ master_execute = TRUE
    /\ i = 0
    /\ executed = << >>
    /\ noted = << >>
    /\ wants_screenshot = FALSE
    /\ events = << >>
    /\ output = << >>
    /\ actions = << >>
    /\ marks = TRUE
    /\ CaptureStart
    /\ MainIdle

EncodePng ==
    /\ pc = "encode_png"
    /\ png' = << encode_png_bytes(data, screen[1], screen[2]) >>
    /\ pc' = "encoded"
    /\ UNCHANGED << entry, mainVars, screen, execVars, actions, marks, handles, frame, k,
                    pxy, drawn, err, drawVars >>

SpecEncode == InitEncode /\ [][EncodePng]_vars

(***************************************************************************)
(* main.py in injected mode: the loop of main on k response files.         *)
(***************************************************************************)

MaxResponses == 3

\* the content of a response file: empty, story and one action, an action
\* alone, story alone
ResponseTexts ==
    { "",
      "NARRATIVE:\nopening the menu\nACTIONS:\nleft_click(500,500)\n",
      "ACTIONS:\nright_click(528,500)\nscreenshot()",
      "NARRATIVE:\nwaiting\n" }

TOOLS == [left_click |-> TRUE, right_click |-> TRUE, double_left_click |-> TRUE,
          drag |-> TRUE, type |-> TRUE, screenshot |-> TRUE]

EXECUTE_ACTIONS == TRUE

\* _run_executor(raw, tools, execute, ...): execute.py run on the request;
\* the text it was handed, the lines it parsed, the input events it sent
run_executor(text, toolcfg, execute, sw, sh) ==
    LET lines == parse_actions(text) IN
    [raw |-> text,
     lines |-> lines,
     events |-> Flatten([j \in 1 .. Len(lines) |->
                            ExecStep(lines[j], toolcfg, execute, sw, sh).events])]

\* next(injected_responses, None) with the files of rs in reverse order
next_injected_from_last(rs, n) == IF n < Len(rs) THEN << rs[Len(rs) - n] >> ELSE << >>

\* next(injected_responses, None) after n responses were yielded: << >> is
\* None, << c >> the content of the next file
next_injected(rs, n) == IF n < Len(rs) THEN << rs[n + 1] >> ELSE << >>

InitMain ==
    /\ entry = "main"
    /\ pc = "main_turn"
    /\ screen \in Screens
    /\ responses \in UNION {[1 .. m -> ResponseTexts] : m \in 1 .. MaxResponses}
    /\ taken = 0
    /\ story = ""
    /\ turn = 0
    /\ runs = << >>
    /\ raw = ""
    /\ action_lines = << >>
    /\ tools = TOOLS
    /\ master_execute = EXECUTE_ACTIONS
    /\ i = 0
    /\ executed = << >>
    /\ noted = << >>
    /\ wants_screenshot = FALSE
    /\ events = << >>
    /\ output = << >>
    /\ actions = << >>
    /\ marks = TRUE
    /\ CaptureStart
    /\ DrawIdle

\* state.turn += 1; executor_result = _run_executor(state.story, ...)
RunExecutor ==
    /\ pc = "main_turn"
    /\ turn' = turn + 1
    /\ runs' = Append(runs, [turn |-> turn + 1,
                             run |-> run_executor(story, tools, master_execute,
                                                  screen[1], screen[2])])
    /\ pc' = "main_next"
    /\ UNCHANGED << entry, screen, execVars, capVars, drawVars, raw, responses, taken,
                    story >>

\* raw = next(injected_responses, None), and a response there is
NextResponse ==
    /\ pc = "main_next"
    /\ next_injected(responses, taken) # << >>
    /\ raw' = next_injected(responses, taken)[1]
    /\ taken' = taken + 1
    /\ pc' = "main_store"
    /\ UNCHANGED << entry, screen, execVars, capVars, drawVars, responses, story, turn,
                    runs >>

\* raw = next(injected_responses, None) is None: break
BreakLoop ==
    /\ pc = "main_next"
    /\ next_injected(responses, taken) = << >>
    /\ pc' = "main_done"
    /\ UNCHANGED << entry, screen, execVars, capVars, drawVars, mainVars >>

\* print(raw); state.story = raw; _save_state(...); time.sleep(LOOP_DELAY)
StoreStory ==
    /\ pc = "main_store"
    /\ story' = raw
    /\ pc' = "main_turn"
    /\ UNCHANGED << entry, screen, execVars, capVars, drawVars, raw, responses, taken,
                    turn, runs >>

NextMain == RunExecutor \/ NextResponse \/ BreakLoop \/ StoreStory

SpecMain == InitMain /\ [][NextMain]_vars

\* the moves of control NextMain makes
MainRuns ==
    \/ pc = "main_turn" /\ pc' = "main_next"
    \/ pc = "main_next" /\ pc' \in {"main_store", "main_done"}
    \/ pc = "main_store" /\ pc' = "main_turn"

\* the interpreter does not stop between two statements of main
SpecMainFair == SpecMain /\ WF_pc(MainRuns)

(***************************************************************************)
(* _parse_actions on its own: a response text is parsed once.              *)
(***************************************************************************)

MaxParseLines == 3

\* pieces of response text, each a line with its line end; the last one has
\* none, so that it is a last line or runs on into the next piece
ParsePieces ==
    { "NARRATIVE:\n", "narrative\n", "ACTIONS:\n", "Actions::\r\n", "  actions  \n",
      "ACTIONS :\n", "left_click(1,2)\n", "  screenshot()\t\r\n", "\n", " \t\n",
      "story\n", "drag(1,2,3,4)" }

\* the pieces of ps one after the other
RECURSIVE Concat(_)
Concat(ps) == IF ps = << >> THEN "" ELSE ps[1] \o Concat(Tail(ps))

RawTexts == { Concat(ps) : ps \in SeqsUpTo(ParsePieces, MaxParseLines) }

InitParse ==
    /\ entry = "parse"
    /\ pc = "parse_actions"
    /\ raw \in RawTexts
    /\ screen = << WIDTH, HEIGHT >>
    /\ responses = << >>
    /\ taken = 0
    /\ story = ""
    /\ turn = 0
    /\ runs = << >>
    /\ action_lines = << >>
    /\ tools = << >>
    /\ master_execute = TRUE
    /\ i = 0
    /\ executed = << >>
    /\ noted = << >>
    /\ wants_screenshot = FALSE
    /\ events = << >>
    /\ output = << >>
    /\ actions = << >>
    /\ marks = TRUE
    /\ CaptureStart
    /\ DrawIdle

\* action_lines = _parse_actions(raw)
ParseActions ==
    /\ pc = "parse_actions"
    /\ action_lines' = parse_actions(raw)
    /\ pc' = "parsed"
    /\ UNCHANGED << entry, screen, tools, master_execute, i, executed, noted,
                    wants_screenshot, events, output, capVars, drawVars, mainVars >>

SpecParse == InitParse /\ [][ParseActions]_vars

(***************************************************************************)
(* The coordinate conversions on their own: a point of the 0..1000 plane   *)
(* is converted by the annotator (_norm) and by the dispatcher (_to_px).   *)
(***************************************************************************)

\* the largest coordinate of the plane
PLANE == 1000

\* extents: the target size handed to the annotator, and screen metrics
\* GetSystemMetrics reports on common displays
CoordScreens == {<< WIDTH, HEIGHT >>, << 1920, 1080 >>, << 1280, 720 >>}

InitCoord ==
    /\ entry = "coord"
    /\ pc = "coord"
    /\ screen \in CoordScreens
    /\ \E n \in 0 .. PLANE : call = << << n, n >> >>
    /\ data = << >>
    /\ fault = FALSE
    /\ dropped = FALSE
    /\ seg = << >>
    /\ action_lines = << >>
    /\ tools = << >>
    /\ master_execute = TRUE
    /\ i = 0
    /\ executed = << >>
    /\ noted = << >>
    /\ wants_screenshot = FALSE
    /\ events = << >>
    /\ output = << >>
    /\ actions = << >>
    /\ marks = TRUE
    /\ CaptureStart
    /\ MainIdle

\* the annotator converts the point: x, y = _norm(.., w), _norm(.., h)
NormPoint ==
    /\ pc = "coord"
    /\ pxy = NoPoint
    /\ pxy' = << norm(call[1][1], screen[1]), norm(call[1][2], screen[2]) >>
    /\ UNCHANGED << entry, mainVars, pc, screen, execVars, actions, marks, handles, frame, k,
                    drawn, err, png, drawVars >>

\* the dispatcher converts the point and moves the cursor there:
\* _smooth_move(_to_px(x, _screen_w), _to_px(y, _screen_h))
MovePoint ==
    /\ pc = "coord"
    /\ events = << >>
    /\ events' = smooth_move(to_px(call[1][1], screen[1]), to_px(call[1][2], screen[2]))
    /\ UNCHANGED << entry, mainVars, pc, screen, action_lines, tools, master_execute, i, executed,
                    noted, wants_screenshot, output, capVars, drawVars >>

NextCoord == NormPoint \/ MovePoint

SpecCoord == InitCoord /\ [][NextCoord]_vars

(***************************************************************************)
(* _draw_line step by step: one call on a blank LineSide x LineSide buffer *)
(* with end points on, at and one beyond every edge.                       *)
(***************************************************************************)

LineSide == 3

LinePoints == (-1 .. LineSide) \X (-1 .. LineSide)

\* the thicknesses the annotations pass
Thicknesses == {1, 2, 3}

\* stamps made so far, counted 0, 1, "more than one" (2)
Counted(n) == IF n < 2 THEN n + 1 ELSE 2

InitLine ==
    /\ entry = "line"
    /\ pc = "line_call"
    /\ screen = << LineSide, LineSide >>
    /\ data = Blank(LineSide, LineSide)
    /\ call = << >>
    /\ fault = FALSE
    /\ dropped = FALSE
    /\ seg = << >>
    /\ action_lines = << >>
    /\ tools = << >>
    /\ master_execute = TRUE
    /\ i = 0
    /\ executed = << >>
    /\ noted = << >>
    /\ wants_screenshot = FALSE
    /\ events = << >>
    /\ output = << >>
    /\ actions = << >>
    /\ marks = TRUE
    /\ CaptureStart
    /\ MainIdle

\* the locals of _draw_line before the loop
line_enter(x1, y1, x2, y2, t) ==
    LET dx == Abs(x2 - x1)
        dy == Abs(y2 - y1)
    IN  [x1 |-> x1, y1 |-> y1, x2 |-> x2, y2 |-> y2, t |-> t,
         dx |-> dx, dy |-> dy,
         sx |-> IF x1 < x2 THEN 1 ELSE -1,
         sy |-> IF y1 < y2 THEN 1 ELSE -1,
         err |-> dx - dy, x |-> x1, y |-> y1,
         stamps |-> 0, last |-> NoPoint]

\* one pass of the loop body after the break test, without the step in y
line_step_x_only(l) ==
    LET e2 == 2 * l.err
        sx == e2 > -l.dy
    IN  [l EXCEPT !.err = IF sx THEN l.err - l.dy ELSE l.err,
                  !.x = IF sx THEN l.x + l.sx ELSE l.x]

\* one pass of the loop body after the break test: e2, the step in x, the
\* step in y
line_step(l) ==
    LET e2 == 2 * l.err
        stepx == e2 > -l.dy
        stepy == e2 < l.dx
    IN  [l EXCEPT !.err = (IF stepx THEN l.err - l.dy ELSE l.err)
                          + (IF stepy THEN l.dx ELSE 0),
                  !.x = IF stepx THEN l.x + l.sx ELSE l.x,
                  !.y = IF stepy THEN l.y + l.sy ELSE l.y]

\* _draw_line is called
LineCall ==
    /\ pc = "line_call"
    /\ \E p1 \in LinePoints, p2 \in LinePoints, t \in Thicknesses :
          seg' = << line_enter(p1[1], p1[2], p2[1], p2[2], t) >>
    /\ pc' = "line_stamp"
    /\ UNCHANGED << entry, mainVars, screen, execVars, capVars, data, call, fault, dropped >>

\* _set_pixel_thick(d, w, h, x, y, c, t) at the top of the loop
LineStamp ==
    /\ pc = "line_stamp"
    /\ LET l == seg[1]
           r == set_pixel_thick([bytes |-> data, raised |-> FALSE, dropped |-> FALSE],
                                screen[1], screen[2], l.x, l.y, ACTION_PRIMARY, l.t)
       IN  /\ data' = r.bytes
           /\ fault' = r.raised
           /\ dropped' = r.dropped
           /\ seg' = << [l EXCEPT !.stamps = Counted(l.stamps),
                                   !.last = << l.x, l.y >>] >>
           /\ pc' = IF r.raised THEN "line_raised" ELSE "line_test"
    /\ UNCHANGED << entry, mainVars, screen, execVars, capVars, call >>

\* if x == x2 and y == y2: break
LineBreak ==
    /\ pc = "line_test"
    /\ seg[1].x = seg[1].x2
    /\ seg[1].y = seg[1].y2
    /\ pc' = "line_done"
    /\ UNCHANGED << entry, mainVars, screen, execVars, capVars, drawVars >>

\* otherwise the rest of the loop body, and back to the top
LineAdvance ==
    /\ pc = "line_test"
    /\ ~(seg[1].x = seg[1].x2 /\ seg[1].y = seg[1].y2)
    /\ seg' = << line_step(seg[1]) >>
    /\ pc' = "line_stamp"
    /\ UNCHANGED << entry, mainVars, screen, execVars, capVars, data, call, fault, dropped >>

NextLine == LineCall \/ LineStamp \/ LineBreak \/ LineAdvance

SpecLine == InitLine /\ [][NextLine]_vars

\* the moves of control NextLine makes: from the call into the loop, from
\* the stamp to the test (or out by the exception), from the test to the
\* break or back to the stamp
LineRuns ==
    \/ pc = "line_call" /\ pc' = "line_stamp"
    \/ pc = "line_stamp" /\ pc' \in {"line_test", "line_raised"}
    \/ pc = "line_test" /\ pc' \in {"line_done", "line_stamp"}

\* the interpreter does not stop between two statements: while _draw_line
\* has a next statement, it is run
SpecLineFair == SpecLine /\ WF_pc(LineRuns)

(***************************************************************************)
(* The action a line denotes, as the specification of the interpreter      *)
(* defines it: name(arg0, arg1, ...) with the argument list between the    *)
(* first "(" and the matching final ")", integer arguments for the         *)
(* coordinate-bearing actions, and a minimum argument count per name.      *)
(* Used to state the claims, not by the programs.                          *)
(***************************************************************************)

RECURSIVE CountChar(_, _)
CountChar(s, c) ==
    IF Len(s) = 0 THEN 0
    ELSE (IF CharAt(s, 0) = c THEN 1 ELSE 0) + CountChar(Slice(s, 1, Len(s)), c)

\* an opening "(" with no matching closing ")"
Unbalanced(line) == CountChar(line, "(") > CountChar(line, ")")

Unrecognized == [kind |-> "Unrecognized", p |-> << >>, q |-> << >>]

SpecAction(line) ==
    LET paren == Find(line, "(")
        name == Strip(Slice(line, 0, paren))
        body == Slice(line, paren + 1, Len(line) - 1)
        items == SplitItems(body, 0, 0, FALSE)
        n == IF Strip(body) = "" THEN 0 ELSE Len(items)
        ints(m) == n >= m /\ \A j \in 1 .. m : ItemValue(items[j]).t = "int"
        arg(j) == ItemValue(items[j]).v
        shaped == /\ paren # -1
                  /\ CharAt(line, Len(line) - 1) = ")"
                  /\ CountChar(line, "(") = 1
                  /\ CountChar(line, ")") = 1
    IN  IF ~shaped THEN Unrecognized
        ELSE IF name = "left_click" /\ ints(2)
            THEN [kind |-> "Click", p |-> << arg(1), arg(2) >>, q |-> << >>]
        ELSE IF name = "right_click" /\ ints(2)
            THEN [kind |-> "RightClick", p |-> << arg(1), arg(2) >>, q |-> << >>]
        ELSE IF name = "double_left_click" /\ ints(2)
            THEN [kind |-> "DoubleClick", p |-> << arg(1), arg(2) >>, q |-> << >>]
        ELSE IF name = "drag" /\ ints(4)
            THEN [kind |-> "Drag", p |-> << arg(1), arg(2) >>, q |-> << arg(3), arg(4) >>]
        ELSE IF name = "type" THEN [kind |-> "TypeText", p |-> << >>, q |-> << >>]
        ELSE IF name = "screenshot" THEN [kind |-> "Screenshot", p |-> << >>, q |-> << >>]
        ELSE Unrecognized

PointKinds == {"Click", "RightClick", "DoubleClick", "Drag"}

PointBearing(line) == SpecAction(line).kind \in PointKinds

Renderable(line) == SpecAction(line).kind \in PointKinds \cup {"TypeText"}

\* the pixel point of a plane point on the target buffer
Pixel(p) == << norm(p[1], WIDTH), norm(p[2], HEIGHT) >>

\* the point a point-bearing action leaves as the prior point
EndPoint(a) == IF a.kind = "Drag" THEN Pixel(a.q) ELSE Pixel(a.p)

\* the pixel point of the last point-bearing action among lines, or none
RECURSIVE LastPoint(_)
LastPoint(lines) ==
    IF lines = << >> THEN NoPoint
    ELSE LET a == SpecAction(lines[Len(lines)]) IN
         IF a.kind \in PointKinds THEN EndPoint(a)
         ELSE LastPoint(SubSeq(lines, 1, Len(lines) - 1))

\* the drawing calls of annotating lines one after the other
RECURSIVE AnnotateAll(_, _, _)
AnnotateAll(lines, j, p) ==
    IF j > Len(lines) THEN << >>
    ELSE LET r == AnnotateLine(lines[j], WIDTH, HEIGHT, p) IN
         r.draws \o AnnotateAll(lines, j + 1, r.pxy)

IsTrail(d) == d.op = "draw_dashed_arrow" /\ d.c = ACTION_SECONDARY

Trails(draws) == {j \in 1 .. Len(draws) : IsTrail(draws[j])}

Range(f) == {f[j] : j \in DOMAIN f}

\* the pixel (x, y) of a buffer w pixels wide
PixelAt(bytes, w, x, y) == SubSeq(bytes, (y * w + x) * 4 + 1, (y * w + x) * 4 + 4)

\* the longest row of a glyph
RowLen(glyph) == CHOOSE n \in 0 .. 64 : /\ \A j \in DOMAIN glyph : Len(glyph[j]) <= n
                                       /\ \E j \in DOMAIN glyph : Len(glyph[j]) = n

\* the rectangle << xlo, xhi, ylo, yhi >> of the plane a primitive call is
\* given to draw in: its points, widened by the thickness or the radius
Extent(d) ==
    LET a == d.a IN
    CASE d.op = "set_pixel" -> << a[1], a[1], a[2], a[2] >>
      [] d.op = "set_pixel_thick" -> << a[1] - a[3], a[1] + a[3], a[2] - a[3], a[2] + a[3] >>
      [] d.op \in {"draw_line", "draw_dashed_line"} ->
            << Min(a[1], a[3]) - a[5], Max(a[1], a[3]) + a[5],
               Min(a[2], a[4]) - a[5], Max(a[2], a[4]) + a[5] >>
      [] d.op = "draw_circle" -> << a[1] - a[3], a[1] + a[3], a[2] - a[3], a[2] + a[3] >>
      [] d.op = "fill_triangle" ->
            << Min(a[1], Min(a[3], a[5])), Max(a[1], Max(a[3], a[5])),
               Min(a[2], Min(a[4], a[6])), Max(a[2], Max(a[4], a[6])) >>
      [] d.op = "draw_glyph" ->
            << a[1], a[1] + RowLen(Glyph(d.g)) * a[3] - 1,
               a[2], a[2] + Len(Glyph(d.g)) * a[3] - 1 >>

InExtent(d, x, y) ==
    LET e == Extent(d) IN e[1] <= x /\ x <= e[2] /\ e[3] <= y /\ y <= e[4]

(***************************************************************************)
(* Claims                                                                  *)
(***************************************************************************)

\* C1: for any sequence of action lines annotation never raises and never
\* stops early; a line that does not parse, has too few arguments or names
\* an unknown function is skipped and the later lines are still processed.
C1_AnnotationNeverRaises ==
    /\ err # "apply_annotations"
    /\ (pc = "cap_done" /\ ShouldAnnotate(marks, actions)) => k = Len(actions)

\* C2: a line with an opening "(" and no matching ")" is Unrecognized: it
\* draws nothing and leaves the carried prior point unchanged.
C2_UnbalancedLineDrawsNothing ==
    [][(pc = "annotate" /\ Unbalanced(actions[k + 1]))
         => (drawn' = drawn /\ pxy' = pxy)]_vars

\* C3: annotations are drawn in the order of the lines of the ACTIONS
\* section, executed and noted lines alike: the marks of a run of the
\* executor are those of annotating its action lines in their order.
C3_AnnotationInLineOrder ==
    (entry = "execute" /\ pc = "cap_done" /\ marks)
        => /\ SelectSeq(actions, Renderable) = SelectSeq(action_lines, Renderable)
           /\ drawn = AnnotateAll(action_lines, 1, NoPoint)

\* C4: after the loop of the executor, executed holds exactly the lines for
\* which input events were dispatched; no event was dispatched for a line in
\* noted, none with the master switch off, none by a tool that is not active.
C4_NotedLinesDispatchNothing ==
    pc # "exec_loop"
        => /\ \A e \in Range(events) : e.line \notin Range(noted)
           /\ {e.line : e \in Range(events)} = Range(executed)
           /\ (~master_execute => events = << >>)
           /\ \A e \in Range(events) : ToolActive(tools, e.fn)

\* C5: every display handle acquired during a capture or a resample is
\* released in the same invocation, on every exit path, a failing OS call
\* included.
C5_HandlesReleased == handles = {}

\* C6: if an OS capture step fails the invocation ends in failure and emits
\* no image: no output is built from a blank, partial or uncaptured buffer.
C6_NoImageFromFailedCapture ==
    /\ png # << >> => png[1].frame.content = "screen"
    /\ pc = "cap_done" => frame[1].content = "screen"

\* C7: whatever primitive is called with whatever integer coordinates, on or
\* off the buffer, the call returns without raising, the buffer keeps its
\* length width*height*4, and a pixel that changed lies in the rectangle the
\* call was given and holds the call's colour: a write off the buffer is
\* dropped, it does not land on another pixel.
C7_OutOfBoundsWritesDiscarded ==
    [][(call # << >> /\ call' = << >>)
         => /\ ~fault'
            /\ Len(data') = screen[1] * screen[2] * 4
            /\ \A x \in 0 .. screen[1] - 1, y \in 0 .. screen[2] - 1 :
                  PixelAt(data', screen[1], x, y) # PixelAt(data, screen[1], x, y)
                     => /\ InExtent(call[1], x, y)
                        /\ PixelAt(data', screen[1], x, y) = call[1].c]_vars

\* a primitive has made writes off the buffer and returned: nothing raised,
\* the buffer has its length and holds the pixels drawn on it
C7_Witness ==
    /\ entry = "draw"
    /\ call = << >>
    /\ dropped
    /\ ~fault
    /\ Len(data) = DrawW * DrawH * 4
    /\ data # Blank(DrawW, DrawH)

\* C8: after any prefix of the action lines the carried prior point is the
\* pixel point of the last point-bearing action of the prefix (the end point
\* of a drag), or none; type, screenshot and unrecognized lines keep it.
C8_PriorPointIsLastActionPoint ==
    frame # << >> => pxy = LastPoint(SubSeq(actions, 1, k))

\* C9: for a point-bearing action with a prior point, no movement trail is
\* drawn when the pixel distance from the prior point to the action's point
\* (the start point of a drag) is at most 20, and exactly one dashed-arrow
\* trail, before the action's own marks, when it is greater than 20.
C9_TrailOnlyBeyondTwenty ==
    [][(pc = "annotate" /\ pc' # "cap_failed" /\ pxy # NoPoint
            /\ PointBearing(actions[k + 1]))
         => LET at == Pixel(SpecAction(actions[k + 1]).p)
                new == SubSeq(drawn', Len(drawn) + 1, Len(drawn'))
                dx == at[1] - pxy[1]
                dy == at[2] - pxy[2]
            IN  IF dx * dx + dy * dy <= 400
                THEN Trails(new) = {}
                ELSE /\ Trails(new) = {1}
                     /\ Len(new) > 1
                     /\ SubSeq(new[1].a, 1, 4) = pxy \o at]_vars

\* a pair at distance 20 drew no trail and a pair farther apart drew one
C9_Witness ==
    /\ k = 3
    /\ actions = << "left_click(500,500)", "right_click(528,500)",
                    "double_left_click(900,100)" >>
    /\ Cardinality(Trails(drawn)) = 1

\* C10: with marks false the annotation step is skipped for every action
\* list: the encoder is given the normalized capture, no pixel changed.
C10_NoMarksNoAnnotation ==
    ~marks => /\ drawn = << >>
              /\ pc # "annotate"
              /\ png # << >> => png[1] = [frame |-> frame[1], draws |-> << >>]
                                /\ frame[1].fmt = "rgba"

\* an image was written for a request with marks off and a click to draw
C10_Witness ==
    /\ ~marks
    /\ pc = "cap_done"
    /\ png # << >>
    /\ \E j \in 1 .. Len(actions) : PointBearing(actions[j])

(***************************************************************************)
(* Reading an encoded image back: the chunks of a PNG stream and the       *)
(* payload of a zlib stream.                                               *)
(***************************************************************************)

\* the value of a four-byte big-endian length field (below 2^31)
WordValue(u) == ((u[1] * 256 + u[2]) * 256 + u[3]) * 256 + u[4]

\* the chunks read from offset pos (1-based) to the end of bs, each as
\* [tag, body, crc]; a chunk that runs past the end is read as "truncated"
RECURSIVE ReadChunks(_, _)
ReadChunks(bs, pos) ==
    IF pos > Len(bs) THEN << >>
    ELSE IF pos + 11 > Len(bs) THEN << [tag |-> "truncated", body |-> << >>, crc |-> << >>] >>
    ELSE LET n == WordValue(SubSeq(bs, pos, pos + 3)) IN
         IF pos + 11 + n > Len(bs)
         THEN << [tag |-> "truncated", body |-> << >>, crc |-> << >>] >>
         ELSE << [tag |-> SubSeq(bs, pos + 4, pos + 7),
                  body |-> SubSeq(bs, pos + 8, pos + 7 + n),
                  crc |-> SubSeq(bs, pos + 8 + n, pos + 11 + n)] >>
              \o ReadChunks(bs, pos + 12 + n)

\* what a zlib stream of stored blocks inflates to; << -1 >> when the
\* stream is not a well-formed single stored block with a right checksum
Inflate(z) ==
    IF Len(z) < 11 THEN << -1 >>
    ELSE LET n == z[4] + 256 * z[5]
             payload == SubSeq(z, 8, 7 + n)
         IN  IF /\ z[1] = 120
                /\ (z[1] * 256 + z[2]) % 31 = 0
                /\ z[3] = 1
                /\ z[6] = 255 - z[4]
                /\ z[7] = 255 - z[5]
                /\ Len(z) = 11 + n
                /\ SubSeq(z, 8 + n, 11 + n) = adler32(payload)
             THEN payload
             ELSE << -1 >>

\* row y (from 0) of a w-wide RGBA buffer
Row(rgba, w, y) == SubSeq(rgba, y * w * 4 + 1, (y + 1) * w * 4)

\* C11: for every width x height buffer the encoded bytes are the 8-byte
\* signature, then exactly an IHDR chunk declaring that width and height
\* (8-bit RGBA), an IDAT chunk and an empty IEND chunk in that order; every
\* length field is the length of its body, every CRC is that of tag + body,
\* and the IDAT stream inflates to height scanlines, each a zero filter
\* byte followed by the width * 4 bytes of its row.
C11_PngStructure ==
    pc = "encoded" =>
        LET out == png[1]
            w == screen[1]
            h == screen[2]
            cs == ReadChunks(out, 9)
            payload == Inflate(cs[2].body)
        IN  /\ SubSeq(out, 1, 8) = << 137, 80, 78, 71, 13, 10, 26, 10 >>
            /\ Len(cs) = 3
            /\ cs[1].tag = << 73, 72, 68, 82 >>
            /\ cs[2].tag = << 73, 68, 65, 84 >>
            /\ cs[3].tag = << 73, 69, 78, 68 >>
            /\ \A j \in 1 .. 3 : cs[j].crc = crc32(cs[j].tag \o cs[j].body)
            /\ cs[1].body = << 0, 0, 0, w, 0, 0, 0, h, 8, 6, 0, 0, 0 >>
            /\ cs[3].body = << >>
            /\ Len(payload) = h * (1 + w * 4)
            /\ \A y \in 0 .. h - 1 :
                  /\ payload[y * (1 + w * 4) + 1] = 0
                  /\ SubSeq(payload, y * (1 + w * 4) + 2, (y + 1) * (1 + w * 4))
                        = Row(data, w, y)

\* a 3 x 2 buffer whose two rows differ has been encoded
C11_Witness ==
    /\ pc = "encoded"
    /\ screen = << 3, 2 >>
    /\ png # << >>
    /\ Row(data, 3, 0) # Row(data, 3, 1)

\* the pixels of the buffer that are not blank
Coloured == {p \in (0 .. screen[1] - 1) \X (0 .. screen[2] - 1) :
               PixelAt(data, screen[1], p[1], p[2]) # << 0, 0, 0, 0 >>}

\* C12: the first stamp of a line of thickness t, made at a point with room
\* for it on every side, colours a t x t square: exactly t * t pixels.
C12_StampIsTByT ==
    (/\ pc = "line_test"
     /\ seg[1].stamps = 1
     /\ seg[1].x = 1
     /\ seg[1].y = 1)
        => Cardinality(Coloured) = seg[1].t * seg[1].t

\* C15: for every pair of end points the loop of _draw_line comes to its
\* break; when it has, the last point stamped is the end point (x2, y2), and
\* if the two end points coincide exactly one stamp was made.
C15_LineEndsAtEndPoint ==
    /\ <>(pc = "line_done")
    /\ [](pc = "line_done" =>
            /\ seg[1].last = << seg[1].x2, seg[1].y2 >>
            /\ (seg[1].x1 = seg[1].x2 /\ seg[1].y1 = seg[1].y2) => seg[1].stamps = 1)

\* a line of several stamps, neither axis-parallel nor diagonal, has ended
C15_Witness ==
    /\ pc = "line_done"
    /\ seg[1].dx = 3
    /\ seg[1].dy = 1
    /\ seg[1].stamps = 2
    /\ seg[1].last = << seg[1].x2, seg[1].y2 >>

\* the pixel a plane point maps to by truncation of n / 1000 * extent
Truncated(p, wh) == << Trunc(p[1] * wh[1], 1000), Trunc(p[2] * wh[2], 1000) >>

\* C13: a plane coordinate n in 0 .. 1000 maps to the truncation of
\* n / 1000 * extent, in the annotator and in the dispatcher alike.
C13_TruncatedScaling ==
    /\ pxy # NoPoint => pxy = Truncated(call[1], screen)
    /\ events # << >> => events[1].a = Truncated(call[1], screen)

\* the letter c in either case
EitherCase(c) ==
    LET j == Find(UPPERCASE, c) IN {c, CharAt(LOWERCASE, j)}

\* the text of a line without the whitespace around it
Bare(l) ==
    LET inner == {j \in 0 .. Len(l) - 1 : CharAt(l, j) \notin {" ", "\t"}}
    IN  IF inner = {} THEN ""
        ELSE SubSeq(l, (CHOOSE j \in inner : \A m \in inner : j <= m) + 1,
                       (CHOOSE j \in inner : \A m \in inner : j >= m) + 1)

\* line l is the header `name`: the letters of name in any case, followed by
\* any number of colons, with whitespace around it allowed
IsHeader(l, name) ==
    LET b == Bare(l) IN
    /\ Len(b) >= Len(name)
    /\ \A j \in 0 .. Len(name) - 1 : CharAt(b, j) \in EitherCase(CharAt(name, j))
    /\ \A j \in Len(name) .. Len(b) - 1 : CharAt(b, j) = ":"

\* line j of lines is read while the section is ACTIONS: an ACTIONS header
\* came before it with no header between the two
InActions(lines, j) ==
    \E h \in 1 .. j - 1 :
        /\ IsHeader(lines[h], "ACTIONS")
        /\ \A m \in h + 1 .. j - 1 :
              ~IsHeader(lines[m], "ACTIONS") /\ ~IsHeader(lines[m], "NARRATIVE")

\* the lines the claim says are returned, from line j on
RECURSIVE ReturnedFrom(_, _)
ReturnedFrom(lines, j) ==
    IF j > Len(lines) THEN << >>
    ELSE (IF /\ Bare(lines[j]) # ""
             /\ ~IsHeader(lines[j], "ACTIONS")
             /\ ~IsHeader(lines[j], "NARRATIVE")
             /\ InActions(lines, j)
          THEN << Bare(lines[j]) >> ELSE << >>)
         \o ReturnedFrom(lines, j + 1)

\* C16: _parse_actions returns exactly the non-blank lines, stripped and in
\* order, that are read while the section is ACTIONS; a NARRATIVE or ACTIONS
\* header (any letter case, any number of trailing colons) switches the
\* section and is not returned, nor is any line before the first ACTIONS
\* header or inside a NARRATIVE section.
C16_ParsedLines ==
    pc = "parsed" => action_lines = ReturnedFrom(SplitLines(raw), 1)

\* a text with a line before the first header, a lower-case header with two
\* colons and one action line with whitespace around it has been parsed
C16_Witness ==
    /\ pc = "parsed"
    /\ raw = "story\nActions::\r\n  screenshot()\t\r\n"
    /\ action_lines = << "screenshot()" >>

\* the texts handed to the executor so far, in the order of the runs
Handed == [j \in DOMAIN runs |-> runs[j].run.raw]

\* C14: with k response files the loop of main comes to its break; the
\* executor's j-th run is made in turn j, the first on the empty story with
\* no event dispatched, run i + 1 on response i; when the loop has ended the
\* executor has run k + 1 times, on the empty story and then on each of the
\* k responses once, in file order.
C14_InjectedRuns ==
    /\ <>(pc = "main_done")
    /\ [](\A j \in DOMAIN runs :
            /\ runs[j].turn = j
            /\ j = 1 => runs[j].run.raw = "" /\ runs[j].run.events = << >>
            /\ j > 1 => runs[j].run.raw = responses[j - 1])
    /\ [](pc = "main_done" =>
            /\ Len(runs) = Len(responses) + 1
            /\ Handed = << "" >> \o responses)

\* the loop has ended on three different responses, two of which made the
\* executor dispatch events
C14_Witness ==
    /\ pc = "main_done"
    /\ Len(responses) = 3
    /\ responses[1] # responses[2]
    /\ responses[2] # responses[3]
    /\ responses[1] # responses[3]
    /\ Len(runs) = 4
    /\ Cardinality({j \in DOMAIN runs : runs[j].run.events # << >>}) = 2

====
